---- MODULE Spec2Model ----
(***************************************************************************)
(* A model of the server side of the ClickHouse native protocol as         *)
(* implemented by clickhouse-rs: the streaming transport                    *)
(* (src/io/transport.rs: poll_next, try_parse_msg, response, the worker     *)
(* thread, wr_flush), the packet dispatcher (src/cmd.rs: Cmd::apply), the   *)
(* connection (src/connection.rs), the decoder of the Query packet          *)
(* (src/protocols/protocol_query.rs) and the socket read into the read      *)
(* buffer (src/io/read_to_end.rs: read_buf).                                *)
(*                                                                          *)
(* Bytes are modelled as units: one unit is one varint or one encoded       *)
(* field group, U(k, v, s).  A batch is the sequence of units one           *)
(* Encoder buffer holds; the socket takes a batch unit by unit.             *)
(***************************************************************************)
EXTENDS Integers, Sequences, FiniteSets, TLC

VARIABLES
    inbound,        \* units the client has sent and the server has not read yet
    eof,            \* the client has closed its side
    sent,           \* number of packets the client has sent
    rd,             \* ClickhouseTransport.rd: buffered read data
    hello,          \* ClickhouseTransport.hello: Option<HelloRequest>, <<>> is None
    client_revision,\* ClickhouseTransport.client_revision
    state,          \* ctx.state: QueryState
    pc,             \* position of the connection task inside poll_next
    chan,           \* wr_stream: the batches in the channel, oldest first
    bytes_thread,   \* the thread spawned at the end of response(): its batch, or <<>>
    worker,         \* the worker thread spawned for a Query
    elapsed,        \* send_progress_time.elapsed(), in ms, saturated at INTERACTIVE_DALAY
    outbound,       \* units written to the socket by the current call of poll_next
    resp,           \* the units the worker of the current call has sent, in order
    last,           \* the outcome of try_parse_msg the current call dispatched
    partials,       \* partial socket writes during the current call
    server_revision,\* session.dbms_tcp_protocol_version()
    ctx,            \* CHContext of the Cmd path: client_revision, hello, state
    conn,           \* Connection of the Cmd path: what was written to its stream
    sink,           \* what the executor read from the INSERT sink, in order
    applied,        \* the packets Cmd::apply was called with, in order
    rx_dropped,     \* the executor has dropped the receiving end of the INSERT sink
    panicked,       \* the connection task of the Cmd path has panicked
    buffer,         \* Connection.buffer: buffered read data
    returned,       \* what the calls of Connection::read_packet returned, in order
    errors_written, \* the errors Connection::write_error was called with, in order
    offered,        \* the revision the client of the query decoder offered in its Hello
    hello_request,  \* the stored HelloRequest's client_revision, <<>> is None
    query_wire,     \* the body of the Query packet the client has written
    query_request,  \* the result of QueryRequest::read_from on it, <<>> before
    net,            \* the bytes the socket of read_buf holds and has not handed out
    vec,            \* the Vec<u8> read_buf is called with: its bytes and its capacity
    polled,         \* what the last call of read_buf returned
    calls           \* number of calls of read_buf

vars == <<inbound, eof, sent, rd, hello, client_revision, state, pc, chan,
          bytes_thread, worker, elapsed, outbound, resp, last,
          partials, server_revision, ctx, conn, sink, applied,
          rx_dropped, panicked, buffer, returned, errors_written,
          offered, hello_request, query_wire, query_request,
          net, vec, polled, calls>>

transportVars == <<inbound, eof, sent, rd, hello, client_revision, state, pc, chan,
                   bytes_thread, worker, elapsed, outbound, resp, last,
                   partials>>

cmdVars == <<ctx, conn, sink, applied, rx_dropped, panicked>>

connVars == <<buffer, returned, errors_written>>

queryVars == <<offered, hello_request, query_wire, query_request>>

readVars == <<net, vec, polled, calls>>

----------------------------------------------------------------------------
(* Bounds of the model *)

MaxPackets == 3

MaxBlocks == 1

MaxPartial == 1

MaxApply == 4

----------------------------------------------------------------------------
(* Protocol constants *)

CLIENT_HELLO == 0

CLIENT_QUERY == 1

CLIENT_DATA == 2

CLIENT_CANCEL == 3

CLIENT_PING == 4

CLIENT_SCALAR == 7

SERVER_EXCEPTION == 2

SERVER_PONG == 4

SERVER_END_OF_STREAM == 5

\* Duration::from_millis(10)
INTERACTIVE_DALAY == 10

\* 'G' as u64 and 'P' as u64
AsciiG == 71

AsciiP == 80

\* a packet kind that is no client packet and no HTTP verb
OtherKind == 9

\* the value a unit that is not a packet-kind varint has when read as one
GarbageKind == 255

\* the revisions the executor may advertise and a client may offer
ServerRevisions == {54405, 54428}

ClientRevisions == {54060, 54450}

\* the stage a client asks for in a QueryRequest (Complete)
StageComplete == 2

----------------------------------------------------------------------------
(* Units, batches, packets *)

U(k, v, s) == [k |-> k, v |-> v, s |-> s]

Min(a, b) == IF a <= b THEN a ELSE b

Uvarint(n) == U("uvarint", n, "")

Pkt(kind, v) == [kind |-> kind, v |-> v]

\* The wire form of a client packet: the packet-kind varint, then its body.
Wire(p) ==
    CASE p.kind = "Ping"   -> <<U("tag", CLIENT_PING, "")>>
      [] p.kind = "Cancel" -> <<U("tag", CLIENT_CANCEL, "")>>
      [] p.kind = "Hello"  -> <<U("tag", CLIENT_HELLO, ""), U("hello", p.v, "")>>
      [] p.kind = "Query"  -> <<U("tag", CLIENT_QUERY, ""), U("query", p.v, "")>>
      [] p.kind = "Data"   -> <<U("tag", CLIENT_DATA, ""), U("block", p.v, "")>>
      [] OTHER             -> <<U("tag", p.v, "")>>

ClientPackets ==
    {Pkt("Ping", 0), Pkt("Cancel", 0)}
    \cup {Pkt("Hello", c) : c \in ClientRevisions}
    \cup {Pkt("Query", z) : z \in {0, 1}}
    \cup {Pkt("Data", r) : r \in {2}}
    \cup {Pkt("Raw", k) : k \in {AsciiG, AsciiP, OtherKind}}

----------------------------------------------------------------------------
(* binary/parser.rs *)

NoPacket == Pkt("None", 0)

\* read_uvarint on the first unit of the buffer
KindOf(u) == IF u.k = "tag" THEN u.v ELSE GarbageKind

Parsed(res, pos, packet) == [res |-> res, pos |-> pos, packet |-> packet]

\* A packet body is one unit following the packet-kind varint; a read past the
\* end of the buffer is the would-block error.
ParseBody(buf, k, kind) ==
    IF Len(buf) < 2 THEN Parsed("WouldBlock", 1, NoPacket)
    ELSE IF buf[2].k = k THEN Parsed("Ok", 2, Pkt(kind, buf[2].v))
    ELSE Parsed("Malformed", 2, Pkt("Malformed", 0))

parse_hello(buf) == ParseBody(buf, "hello", "Hello")

\* a variant that differs from the code: a Query is decoded whether or not a Hello was seen
parse_query_any(buf, h) == ParseBody(buf, "query", "Query")

parse_query(buf, h) ==
    IF h # <<>> THEN ParseBody(buf, "query", "Query")
    ELSE Parsed("UnexpectedPacket", 1, Pkt("UnexpectedPacket", 0))

parse_data(buf, compress) == ParseBody(buf, "block", "Data")

parse_packet(buf, h, compress) ==
    IF buf = <<>> THEN Parsed("WouldBlock", 0, NoPacket)
    ELSE LET packet == KindOf(Head(buf)) IN
         CASE packet = CLIENT_PING   -> Parsed("Ok", 1, Pkt("Ping", 0))
           [] packet = CLIENT_CANCEL -> Parsed("Ok", 1, Pkt("Cancel", 0))
           [] packet \in {CLIENT_DATA, CLIENT_SCALAR} -> parse_data(buf, compress)
           [] packet = CLIENT_QUERY  -> parse_query(buf, h)
           [] packet = CLIENT_HELLO  -> parse_hello(buf)
           [] OTHER -> Parsed("UnknownPacket", 1, Pkt("UnknownPacket", packet))

----------------------------------------------------------------------------
(* Encoders *)

\* Encoder::string: the varint length, then the bytes
EncoderString(s) == <<Uvarint(Len(s)), U("raw", Len(s), s)>>

\* ExceptionResponse::write
ExceptionFrame == U("Exception", SERVER_EXCEPTION, "")

\* Progress::write(encoder, client_revision)
ProgressFrame(rev) == U("Progress", rev, "")

\* Block::send_server_data(encoder, compress)
DataFrame(compress) == U("Data", IF compress THEN 1 ELSE 0, "")

EndOfStream == Uvarint(SERVER_END_OF_STREAM)

\* HelloResponse::encode(encoder, client_revision): one unit, encoded per rev
HelloResponseEncode(rev) == <<U("HelloResponse", rev, "")>>

HttpBadRequestText == "HTTP/1.0 400 Bad Request, maybe you are using http port\r\n\r\n"

----------------------------------------------------------------------------
(* lib.rs: QueryState *)

QueryStateDefault ==
    [query |-> "", stage |-> 0, compression |-> 0, is_cancelled |-> FALSE,
     is_connection_closed |-> FALSE, is_empty |-> FALSE, sent_all_data |-> FALSE]

\* QueryState::reset
QueryStateReset(st) ==
    [st EXCEPT !.stage = 0, !.is_cancelled = FALSE, !.is_connection_closed = FALSE,
               !.is_empty = FALSE, !.sent_all_data = FALSE]

----------------------------------------------------------------------------
(* io/transport.rs *)

NoWorker == [pc |-> "idle", compress |-> FALSE, rev |-> 0, exec |-> "none",
             sawErr |-> FALSE, n |-> 0]

Init ==
    /\ inbound = <<>> /\ eof = FALSE /\ sent = 0
    /\ rd = <<>> /\ hello = <<>> /\ client_revision = 0
    /\ state = QueryStateDefault
    /\ pc = "read"
    /\ chan = <<>> /\ bytes_thread = <<>> /\ worker = NoWorker
    /\ elapsed = 0
    /\ outbound = <<>> /\ resp = <<>> /\ last = NoPacket
    /\ partials = 0
    /\ server_revision \in ServerRevisions
    /\ ctx = [client_revision |-> 0, hello |-> <<>>,
              state |-> [query |-> "", compression |-> 0, stage |-> "Default",
                         out |-> FALSE, is_cancelled |-> FALSE]]
    /\ conn = <<>> /\ sink = <<>> /\ applied = <<>>
    /\ rx_dropped = FALSE /\ panicked = FALSE
    /\ buffer = <<>> /\ returned = <<>> /\ errors_written = <<>>
    /\ offered = 0 /\ hello_request = <<>>
    /\ query_wire = <<>> /\ query_request = <<>>
    /\ net = <<>> /\ vec = [data |-> <<>>, capacity |-> 0]
    /\ polled = [poll |-> "None", n |-> 0] /\ calls = 0

\* The client writes one packet to the socket, once the server has taken what
\* the client wrote before.
ClientSend ==
    /\ ~eof /\ sent < MaxPackets /\ inbound = <<>>
    /\ \E p \in ClientPackets :
          inbound' = inbound \o Wire(p)
    /\ sent' = sent + 1
    /\ UNCHANGED <<eof, rd, hello, client_revision, state, pc, chan, bytes_thread,
                   worker, elapsed, outbound, resp, last, partials,
                   server_revision, cmdVars, connVars, queryVars, readVars>>

ClientClose ==
    /\ ~eof
    /\ eof' = TRUE
    /\ UNCHANGED <<inbound, sent, rd, hello, client_revision, state, pc, chan,
                   bytes_thread, worker, elapsed, outbound, resp, last,
                   partials, server_revision, cmdVars, connVars, queryVars, readVars>>

\* Time passes until send_progress_time.elapsed() reaches INTERACTIVE_DALAY.
\* Only the streaming worker reads send_progress_time, and only as
\* elapsed() >= INTERACTIVE_DALAY, so time that passed earlier shows as a tick
\* at the start of the stream.
Tick ==
    /\ elapsed < INTERACTIVE_DALAY /\ worker.pc = "stream"
    /\ elapsed' = INTERACTIVE_DALAY
    /\ UNCHANGED <<inbound, eof, sent, rd, hello, client_revision, state, pc, chan,
                   bytes_thread, worker, outbound, resp, last, partials,
                   server_revision, cmdVars, connVars, queryVars, readVars>>

\* poll_next: read_buf returns Ready(Ok(n)), n > 0; the loop reads again.
ReadBuf ==
    /\ pc = "read" /\ inbound # <<>>
    /\ \E n \in 1..Len(inbound) :
          /\ rd' = rd \o SubSeq(inbound, 1, n)
          /\ inbound' = SubSeq(inbound, n + 1, Len(inbound))
    /\ UNCHANGED <<eof, sent, hello, client_revision, state, pc, chan, bytes_thread,
                   worker, elapsed, outbound, resp, last, partials,
                   server_revision, cmdVars, connVars, queryVars, readVars>>

\* poll_next when read_buf returns Ready(Ok(0)), whatever rd holds: break, and
\* wr_flush finds the receiver of the last response exhausted and returns
\* Ready(Some(Ok(()))).  The value is the position of the connection task:
\* "eof" is the caller polling again and the read returning 0 again, for ever;
\* "ended" would be Ready(None), "failed" would be Ready(Some(Err(..))).
PollNextAtEof(buf) == "eof"

\* poll_next: read_buf returns Ready(Ok(0)).  No later call finds the read
\* Pending, so try_parse_msg is not called again.
ReadEof ==
    /\ pc = "read" /\ inbound = <<>> /\ eof
    /\ pc' = PollNextAtEof(rd)
    /\ UNCHANGED <<inbound, eof, sent, rd, hello, client_revision, state, chan,
                   bytes_thread, worker, elapsed, outbound, resp, last,
                   partials, server_revision, cmdVars, connVars, queryVars, readVars>>

\* a variant that differs from the code: the buffer is advanced to the cursor
\* after a parse that would block, too
ConsumedAlways(buf, r) == SubSeq(buf, r.pos + 1, Len(buf))

\* try_parse_msg: what is left of rd after a parse that ended at pos
Consumed(buf, r) ==
    IF r.res = "WouldBlock" THEN buf ELSE SubSeq(buf, r.pos + 1, Len(buf))

\* a variant that differs from the code: the revision the client offered is taken as it is
NegotiatedRevisionOffered(s, c) == c

\* the revision a Hello negotiates
NegotiatedRevision(s, c) == Min(s, c)

\* a variant that differs from the code: a Ping is answered with nothing
ResponseBytesNoPong(packet, rev) ==
    IF packet.kind = "Hello" THEN HelloResponseEncode(rev) ELSE <<>>

\* response(): the bytes of the outer encoder, by packet
ResponseBytes(packet, rev) ==
    CASE packet.kind = "Ping"  -> <<Uvarint(SERVER_PONG)>>
      [] packet.kind = "Hello" -> HelloResponseEncode(rev)
      [] OTHER                 -> <<>>

\* response(): the revision after the packet
RevisionAfter(packet, cur, s) ==
    IF packet.kind = "Hello" THEN NegotiatedRevision(s, packet.v) ELSE cur

\* response(): the QueryState after the packet
StateAfter(packet, st) ==
    IF packet.kind = "Query"
    THEN [QueryStateReset(st) EXCEPT !.query = "q", !.stage = StageComplete,
                                     !.compression = packet.v]
    ELSE QueryStateReset(st)

\* poll_next: read_buf is Pending, rd is not empty, try_parse_msg returns a packet,
\* response(packet) runs and the loop breaks to wr_flush.
PollPacket ==
    /\ pc = "read" /\ rd # <<>>
    /\ LET r == parse_packet(rd, hello, state.compression > 0)
           packet == r.packet
           rev == RevisionAfter(packet, client_revision, server_revision)
       IN /\ r.res = "Ok"
          /\ state' = StateAfter(packet, state)
          /\ chan' = <<>>
          /\ client_revision' = rev
          /\ hello' = IF packet.kind = "Hello" THEN <<rev>> ELSE hello
          /\ rd' = IF packet.kind = "Query" THEN <<>> ELSE Consumed(rd, r)
          /\ worker' = IF packet.kind = "Query"
                       THEN [pc |-> "exec", compress |-> packet.v > 0,
                             rev |-> client_revision, exec |-> "none",
                             sawErr |-> FALSE, n |-> 0]
                       ELSE worker
          /\ resp' = IF packet.kind = "Query" THEN <<>> ELSE resp
          /\ bytes_thread' = <<ResponseBytes(packet, rev)>>
          /\ last' = packet
    /\ pc' = "flush"
    /\ UNCHANGED <<inbound, eof, sent, elapsed, outbound, partials,
                   server_revision, cmdVars, connVars, queryVars, readVars>>

\* response_error_packet: the bytes it sends, by error
ErrorPacketBytes(err) ==
    IF err.kind = "UnknownPacket" /\ err.v \in {AsciiG, AsciiP}
    THEN <<EncoderString(HttpBadRequestText)>>
    ELSE <<>>

\* poll_next: try_parse_msg returns an error that is not would-block;
\* response_error_packet(e) runs, then wr_flush, and the caller polls again.
PollError ==
    /\ pc = "read" /\ rd # <<>>
    /\ LET r == parse_packet(rd, hello, state.compression > 0)
       IN /\ r.res \notin {"Ok", "WouldBlock"}
          /\ rd' = Consumed(rd, r)
          /\ chan' = <<>>
          /\ bytes_thread' = ErrorPacketBytes(r.packet)
          /\ last' = r.packet
    /\ pc' = "flush"
    /\ UNCHANGED <<inbound, eof, sent, hello, client_revision, state, worker,
                   elapsed, outbound, resp, partials, server_revision, cmdVars, connVars, queryVars, readVars>>

\* the thread spawned at the end of response(): sender.send(Ok(bytes))
BytesThreadSend ==
    /\ bytes_thread # <<>>
    /\ chan' = Append(chan, Head(bytes_thread))
    /\ bytes_thread' = <<>>
    /\ UNCHANGED <<inbound, eof, sent, rd, hello, client_revision, state, pc,
                   worker, elapsed, outbound, resp, last, partials,
                   server_revision, cmdVars, connVars, queryVars, readVars>>

\* the worker: execute_query returns Err; the exception and the end of stream go
\* into an encoder that is dropped with the thread, and nothing is sent
ExecErrBatches == <<>>

\* the worker: the batch sent for an Ok(block) item
BlockBatch(e, rev, compress) ==
    (IF e >= INTERACTIVE_DALAY THEN <<ProgressFrame(rev)>> ELSE <<>>)
    \o <<DataFrame(compress)>>

\* the worker: the batch sent for an Err(err) item
ErrBatch == <<ExceptionFrame, EndOfStream>>

\* a variant that differs from the code: the end of stream without the final Progress
EndBatchNoProgress(rev) == <<EndOfStream>>

\* the worker: the batch sent after the stream has ended
EndBatch(rev) == <<ProgressFrame(rev), EndOfStream>>

\* the worker: whether the while-let loop polls the stream again after an item
PollsAgainAfter(sawErr) == TRUE

WorkerExecErr ==
    /\ worker.pc = "exec"
    /\ worker' = [worker EXCEPT !.pc = "done", !.exec = "err"]
    /\ chan' = chan \o ExecErrBatches
    /\ resp' = resp \o (IF ExecErrBatches = <<>> THEN <<>> ELSE Head(ExecErrBatches))
    /\ UNCHANGED <<inbound, eof, sent, rd, hello, client_revision, state, pc,
                   bytes_thread, elapsed, outbound, last, partials,
                   server_revision, cmdVars, connVars, queryVars, readVars>>

WorkerExecOk ==
    /\ worker.pc = "exec"
    /\ worker' = [worker EXCEPT !.pc = "stream", !.exec = "ok"]
    /\ UNCHANGED <<inbound, eof, sent, rd, hello, client_revision, state, pc, chan,
                   bytes_thread, elapsed, outbound, resp, last, partials,
                   server_revision, cmdVars, connVars, queryVars, readVars>>

\* response.input_stream.next() yields Some(Ok(block))
WorkerBlockOk ==
    /\ worker.pc = "stream" /\ worker.n < MaxBlocks
    /\ LET batch == BlockBatch(elapsed, worker.rev, worker.compress)
       IN /\ chan' = Append(chan, batch)
          /\ resp' = resp \o batch
    /\ elapsed' = IF elapsed >= INTERACTIVE_DALAY THEN 0 ELSE elapsed
    /\ worker' = [worker EXCEPT !.n = @ + 1]
    /\ UNCHANGED <<inbound, eof, sent, rd, hello, client_revision, state, pc,
                   bytes_thread, outbound, last, partials, server_revision,
                   cmdVars, connVars, queryVars, readVars>>

\* response.input_stream.next() yields Some(Err(err))
WorkerBlockErr ==
    /\ worker.pc = "stream" /\ worker.n < MaxBlocks
    /\ chan' = Append(chan, ErrBatch)
    /\ resp' = resp \o ErrBatch
    /\ worker' = [worker EXCEPT !.n = @ + 1, !.sawErr = TRUE,
                                !.pc = IF PollsAgainAfter(TRUE) THEN "stream" ELSE "done"]
    /\ UNCHANGED <<inbound, eof, sent, rd, hello, client_revision, state, pc,
                   bytes_thread, elapsed, outbound, last, partials,
                   server_revision, cmdVars, connVars, queryVars, readVars>>

\* response.input_stream.next() yields None
WorkerEnd ==
    /\ worker.pc = "stream"
    /\ chan' = Append(chan, EndBatch(worker.rev))
    /\ resp' = resp \o EndBatch(worker.rev)
    /\ worker' = [worker EXCEPT !.pc = "done"]
    /\ UNCHANGED <<inbound, eof, sent, rd, hello, client_revision, state, pc,
                   bytes_thread, elapsed, outbound, last, partials,
                   server_revision, cmdVars, connVars, queryVars, readVars>>

\* a variant that differs from the code: the receiver's iteration does not wait
\* for the sender of the thread spawned at the end of response()
SendersWorkerOnly == IF worker.pc \in {"exec", "stream"} THEN 1 ELSE 0

\* the senders of the channel that are still alive
Senders == (IF worker.pc \in {"exec", "stream"} THEN 1 ELSE 0)
           + (IF bytes_thread # <<>> THEN 1 ELSE 0)

\* wr_flush: what one poll_write of batch v puts on the socket when it takes n units
SocketTakes(v, n) == SubSeq(v, 1, n)

\* wr_flush: the next item of the channel is written whole (poll_write returns n == size)
FlushWrite ==
    /\ pc = "flush" /\ chan # <<>>
    /\ outbound' = outbound \o SocketTakes(Head(chan), Len(Head(chan)))
    /\ chan' = Tail(chan)
    /\ UNCHANGED <<inbound, eof, sent, rd, hello, client_revision, state, pc,
                   bytes_thread, worker, elapsed, resp, last, partials,
                   server_revision, cmdVars, connVars, queryVars, readVars>>

\* wr_flush: poll_write takes only n < size units; the loop continues and writes
\* the whole batch again
FlushPartial ==
    /\ pc = "flush" /\ chan # <<>> /\ partials < MaxPartial
    /\ \E n \in 1..(Len(Head(chan)) - 1) :
          outbound' = outbound \o SocketTakes(Head(chan), n)
    /\ partials' = partials + 1
    /\ UNCHANGED <<inbound, eof, sent, rd, hello, client_revision, state, pc, chan,
                   bytes_thread, worker, elapsed, resp, last,
                   server_revision, cmdVars, connVars, queryVars, readVars>>

\* wr_flush: every sender is dropped and the channel is empty; poll_next returns
\* and the caller (lib.rs, the loops over transport.next()) polls again
FlushDone ==
    /\ pc = "flush" /\ chan = <<>> /\ Senders = 0
    /\ pc' = "read"
    /\ outbound' = <<>> /\ resp' = <<>> /\ last' = NoPacket
    /\ worker' = (IF worker.pc = "done" THEN NoWorker ELSE worker)
    /\ partials' = 0
    /\ UNCHANGED <<inbound, eof, sent, rd, hello, client_revision, state, chan,
                   bytes_thread, elapsed, server_revision, cmdVars, connVars, queryVars, readVars>>

Next ==
    \/ ClientSend \/ ClientClose \/ Tick
    \/ ReadBuf \/ ReadEof \/ PollPacket \/ PollError
    \/ BytesThreadSend
    \/ WorkerExecErr \/ WorkerExecOk \/ WorkerBlockOk \/ WorkerBlockErr \/ WorkerEnd
    \/ FlushWrite \/ FlushPartial \/ FlushDone

Spec == Init /\ [][Next]_vars

----------------------------------------------------------------------------
(* cmd.rs: Cmd::apply, on a Connection (connection.rs) and a CHContext.  The   *)
(* packet is the one Cmd::create was given; the executor's part of a Query is *)
(* its outcome: an error, an INSERT sink installed in ctx.state.out, or k     *)
(* blocks written to the connection.                                          *)

\* a variant that differs from the code: the end of stream is not written
WriteNoEndOfStream(stream) == stream

\* Connection::write_end_of_stream
WriteEndOfStream(stream) == Append(stream, EndOfStream)

\* Connection::write_block: always the compressed form
WriteBlocks(stream, k) == stream \o [i \in 1..k |-> DataFrame(TRUE)]

\* QueryState::reset, as called by Cmd::apply: stage and flags
CmdStateReset(st) == [st EXCEPT !.stage = "Default", !.is_cancelled = FALSE]

\* QueryState::reset drops the INSERT sink
DropSink(st) == [st EXCEPT !.out = FALSE]

\* a variant that differs from the code: an empty Data block in InsertPrepare ends the INSERT
StageAfterEmptyDataSkipsStart(stage) ==
    CASE stage = "InsertPrepare" -> "Default"
      [] stage = "InsertStart"   -> "Default"
      [] OTHER                   -> stage

\* a variant that differs from the code: an empty Data block starts the data in
\* every stage but InsertStart
StageAfterEmptyDataAlwaysStarts(stage) ==
    IF stage = "InsertStart" THEN "Default" ELSE "InsertStart"

\* the stage after an empty Data block
StageAfterEmptyData(stage) ==
    CASE stage = "InsertPrepare" -> "InsertStart"
      [] stage = "InsertStart"   -> "Default"
      [] OTHER                   -> stage

\* a variant that differs from the code: a Query never changes the stage
StageAfterQueryStays(stage, out) == stage

\* the stage after a Query whose executor call returned Ok
StageAfterQuery(stage, out) == IF out THEN "InsertPrepare" ELSE stage

Applied(packet, exec) == [kind |-> packet.kind, v |-> packet.v, exec |-> exec]

ApplyPing ==
    /\ Len(applied) < MaxApply /\ ~panicked
    /\ conn' = conn \o <<Uvarint(SERVER_PONG)>>
    /\ applied' = Append(applied, Applied(Pkt("Ping", 0), "none"))
    /\ UNCHANGED <<ctx, sink, server_revision, rx_dropped, panicked,
                   transportVars, connVars, queryVars, readVars>>

ApplyCancel ==
    /\ Len(applied) < MaxApply /\ ~panicked
    /\ applied' = Append(applied, Applied(Pkt("Cancel", 0), "none"))
    /\ UNCHANGED <<ctx, conn, sink, server_revision, rx_dropped, panicked,
                   transportVars, connVars, queryVars, readVars>>

ApplyHello ==
    /\ Len(applied) < MaxApply /\ ~panicked
    /\ \E c \in ClientRevisions :
          LET rev == NegotiatedRevision(server_revision, c)
          IN /\ ctx' = [ctx EXCEPT !.client_revision = rev, !.hello = <<c>>]
             /\ conn' = conn \o HelloResponseEncode(rev)
             /\ applied' = Append(applied, Applied(Pkt("Hello", c), "none"))
    /\ UNCHANGED <<sink, server_revision, rx_dropped, panicked,
                   transportVars, connVars, queryVars, readVars>>

\* Packet::Query: the QueryState execute_query is called with, for a request
\* whose compression is z
StateAtExecute(st, z) == [st EXCEPT !.query = "q", !.compression = z]

\* execute_query returns Err: apply returns the error
ApplyQueryErr ==
    /\ Len(applied) < MaxApply /\ ~panicked
    /\ \E z \in {0, 1} :
          /\ ctx' = [ctx EXCEPT !.state = StateAtExecute(@, z)]
          /\ applied' = Append(applied, Applied(Pkt("Query", z), "err"))
    /\ UNCHANGED <<conn, sink, server_revision, rx_dropped, panicked,
                   transportVars, connVars, queryVars, readVars>>

\* execute_query installs an INSERT sink
ApplyQuerySink ==
    /\ Len(applied) < MaxApply /\ ~panicked
    /\ \E z \in {0, 1} :
          /\ ctx' = [ctx EXCEPT !.state =
                        [StateAtExecute(@, z) EXCEPT
                            !.out = TRUE, !.stage = StageAfterQuery(@, TRUE)]]
          /\ applied' = Append(applied, Applied(Pkt("Query", z), "sink"))
    /\ sink' = <<>> /\ rx_dropped' = FALSE
    /\ UNCHANGED <<conn, server_revision, panicked, transportVars, connVars, queryVars, readVars>>

\* execute_query writes k blocks to the connection and leaves ctx.state.out alone
ApplyQueryBlocks ==
    /\ Len(applied) < MaxApply /\ ~panicked
    /\ \E z \in {0, 1}, k \in 0..MaxBlocks :
          /\ ctx' = [ctx EXCEPT !.state =
                        [StateAtExecute(@, z) EXCEPT
                            !.stage = StageAfterQuery(@, ctx.state.out)]]
          /\ conn' = IF ctx.state.out THEN WriteBlocks(conn, k)
                     ELSE WriteEndOfStream(WriteBlocks(conn, k))
          /\ applied' = Append(applied, Applied(Pkt("Query", z), "blocks"))
    /\ UNCHANGED <<sink, server_revision, rx_dropped, panicked,
                   transportVars, connVars, queryVars, readVars>>

ApplyDataEmpty ==
    /\ Len(applied) < MaxApply /\ ~panicked
    /\ LET stage == StageAfterEmptyData(ctx.state.stage)
           finish == ctx.state.stage = "InsertStart"
       IN /\ ctx' = IF finish
                    THEN [ctx EXCEPT !.state = DropSink(CmdStateReset(ctx.state))]
                    ELSE [ctx EXCEPT !.state.stage = stage]
          /\ conn' = IF finish THEN WriteEndOfStream(conn) ELSE conn
          /\ sink' = IF finish /\ ctx.state.out /\ ~rx_dropped THEN Append(sink, 0) ELSE sink
    /\ applied' = Append(applied, Applied(Pkt("Data", 0), "none"))
    /\ UNCHANGED <<server_revision, rx_dropped, panicked,
                   transportVars, connVars, queryVars, readVars>>

\* out.send(block).await.unwrap(): whether the unwrap panics.  send returns Err
\* exactly when the receiving end has been dropped.
SendUnwrapPanics(out, dropped) == out /\ dropped

\* a non-empty block: out.send(block).await.unwrap() when the sink is there
ApplyDataBlock ==
    /\ Len(applied) < MaxApply /\ ~panicked
    /\ \E rows \in {2} :
          /\ sink' = IF ctx.state.out /\ ~rx_dropped THEN Append(sink, rows) ELSE sink
          /\ applied' = Append(applied, Applied(Pkt("Data", rows), "none"))
    /\ panicked' = SendUnwrapPanics(ctx.state.out, rx_dropped)
    /\ UNCHANGED <<ctx, conn, server_revision, rx_dropped, transportVars, connVars, queryVars, readVars>>

\* the executor drops the receiving end of the INSERT sink (it failed or gave up)
ExecutorDropsReceiver ==
    /\ ctx.state.out /\ ~rx_dropped /\ ~panicked
    /\ rx_dropped' = TRUE
    /\ UNCHANGED <<ctx, conn, sink, applied, server_revision, panicked,
                   transportVars, connVars, queryVars, readVars>>

CmdNext ==
    \/ ApplyPing \/ ApplyCancel \/ ApplyHello
    \/ ApplyQueryErr \/ ApplyQuerySink \/ ApplyQueryBlocks
    \/ ApplyDataEmpty \/ ApplyDataBlock

CmdSpec == Init /\ [][CmdNext]_vars

\* An INSERT conversation (the client sends Query and Data packets only) with an
\* executor that may drop its end of the sink.
SinkNext ==
    \/ ApplyQuerySink \/ ApplyDataEmpty \/ ApplyDataBlock
    \/ ExecutorDropsReceiver

SinkSpec == Init /\ [][SinkNext]_vars

----------------------------------------------------------------------------
(* protocols/protocol_exception.rs and Connection::write_error *)

\* the number of errors written on one connection
MaxErrors == 2

\* ErrorCodes::UNEXPECTED_PACKET_FROM_CLIENT
UNEXPECTED_PACKET_FROM_CLIENT == 101

\* Error::Server(e), as an executor returns it, and one error that is not a
\* server error
Errors ==
    {[kind |-> "Server", code |-> k, message |-> m, stack_trace |-> s] :
        k \in {42, 62}, m \in {"bad", "unknown table"}, s \in {"", "at main"}}
    \cup {[kind |-> "Driver", code |-> 0, message |-> "unknown packet",
           stack_trace |-> ""]}

\* error.to_string()
ErrorToString(error) == error.message

\* ExceptionResponse::encode(encoder, error, with_stack_trace)
ExceptionResponseEncode(error, with_stack_trace) ==
    LET code == IF error.kind = "Server" THEN error.code
                ELSE UNEXPECTED_PACKET_FROM_CLIENT
        stack_trace == IF error.kind = "Server" /\ with_stack_trace
                       THEN error.stack_trace ELSE ""
    IN <<Uvarint(SERVER_EXCEPTION), U("u32", code, "")>>
       \o EncoderString("")
       \o EncoderString(ErrorToString(error))
       \o EncoderString(stack_trace)
       \o <<U("bool", 0, "")>>

\* Connection.with_stack_trace, as Connection::new sets it; nothing assigns it later
ConnectionWithStackTrace == FALSE

\* Connection::write_error(err), on a connection of a session whose
\* with_stack_trace() is session_with_stack_trace
WriteError ==
    /\ Len(errors_written) < MaxErrors
    /\ \E err \in Errors, session_with_stack_trace \in BOOLEAN :
          /\ conn' = conn \o ExceptionResponseEncode(err, ConnectionWithStackTrace)
          /\ errors_written' = Append(errors_written,
                [err |-> err, with_stack_trace |-> session_with_stack_trace])
    /\ UNCHANGED <<ctx, sink, applied, rx_dropped, panicked, buffer, returned,
                   server_revision, transportVars, queryVars, readVars>>

ExcNext == WriteError

ExcSpec == Init /\ [][ExcNext]_vars

----------------------------------------------------------------------------
(* connection.rs: Connection::read_packet, called again after each packet it   *)
(* returns.  The peer is the one of the transport: ClientSend, ClientClose.   *)

\* Connection::parse_packet on the buffer: hello is None and compress is true
ConnParsePacket(buf) == parse_packet(buf, <<>>, TRUE)

\* read_packet has returned neither Ok(None) nor an error yet
ConnOpen ==
    IF returned = <<>> THEN TRUE
    ELSE returned[Len(returned)].kind \in {"Ping", "Cancel", "Hello", "Query", "Data"}

\* parse_packet returns Ok(Some(packet)): the frame is taken off the buffer
ConnParse ==
    /\ ConnOpen
    /\ LET r == ConnParsePacket(buffer)
       IN /\ r.res = "Ok"
          /\ returned' = Append(returned, r.packet)
          /\ buffer' = SubSeq(buffer, r.pos + 1, Len(buffer))
    /\ UNCHANGED <<errors_written, server_revision, transportVars, cmdVars, queryVars, readVars>>

\* parse_packet returns an error that is not would-block: read_packet returns it
ConnParseErr ==
    /\ ConnOpen
    /\ LET r == ConnParsePacket(buffer)
       IN /\ r.res \notin {"Ok", "WouldBlock"}
          /\ returned' = Append(returned, r.packet)
    /\ UNCHANGED <<buffer, errors_written, server_revision, transportVars, cmdVars, queryVars, readVars>>

\* parse_packet returns Ok(None) and stream.read_buf reads n > 0 bytes
ConnReadBuf ==
    /\ ConnOpen /\ ConnParsePacket(buffer).res = "WouldBlock"
    /\ inbound # <<>>
    /\ \E n \in 1..Len(inbound) :
          /\ buffer' = buffer \o SubSeq(inbound, 1, n)
          /\ inbound' = SubSeq(inbound, n + 1, Len(inbound))
    /\ UNCHANGED <<eof, sent, rd, hello, client_revision, state, pc, chan,
                   bytes_thread, worker, elapsed, outbound, resp, last, partials,
                   returned, errors_written, server_revision, cmdVars, queryVars, readVars>>

\* read_packet when stream.read_buf reads 0 bytes
ReadPacketAtEof(buf) ==
    IF buf = <<>> THEN Pkt("EndOfInput", 0) ELSE Pkt("ConnectionReset", 0)

\* parse_packet returns Ok(None) and stream.read_buf reads 0 bytes
ConnReadEof ==
    /\ ConnOpen /\ ConnParsePacket(buffer).res = "WouldBlock"
    /\ inbound = <<>> /\ eof
    /\ returned' = Append(returned, ReadPacketAtEof(buffer))
    /\ UNCHANGED <<buffer, errors_written, server_revision, transportVars, cmdVars, queryVars, readVars>>

ConnNext ==
    \/ ClientSend \/ ClientClose
    \/ ConnParse \/ ConnParseErr \/ ConnReadBuf \/ ConnReadEof

ConnSpec == Init /\ [][ConnNext]_vars

----------------------------------------------------------------------------
(* protocols/protocol_query.rs: QueryRequest::read_from and                   *)
(* QueryClientInfo::read_from, on the body of a Query packet.  A field on the *)
(* wire is one unit F(f, t, v, s): f is the field the client wrote, t its     *)
(* encoding, v or s its value.  The reader reads by encoding, whatever the    *)
(* client meant the bytes to be.                                              *)

DBMS_MIN_REVISION_WITH_CLIENT_INFO == 54032

DBMS_MIN_REVISION_WITH_QUOTA_KEY_IN_CLIENT_INFO == 54060

DBMS_MIN_REVISION_WITH_VERSION_PATCH == 54401

TCP == 1

HTTP == 2

INITIAL_QUERY == 1

\* a query kind that is not INITIAL_QUERY (a query passed on by another server)
SECONDARY_QUERY == 2

F(f, t, v, s) == [f |-> f, t |-> t, v |-> v, s |-> s]

NoField == F("", "", 0, "")

\* the revisions a client may offer in its Hello, around the thresholds
QueryClientRevisions == {54031, 54032, 54059, 54060, 54400, 54450}

\* the revisions a client may write inside ClientInfo: its own, or the one of the
\* client whose query it passes on
WrittenRevisions == {54000, 54450}

\* the settings a client may send: none, or one setting in the binary format
\* (the key, then the value as a varint)
QuerySettings ==
    {<<>>,
     <<F("setting_key", "string", 0, "max_threads"),
       F("setting_value", "uvarint", 8, "")>>}

\* The ClientInfo a client writes on a connection whose negotiated revision is
\* rev: a field is on the wire iff rev is at least its threshold.
ClientInfoWire(rev, kind, iface, w) ==
    <<F("query_kind", "u8", kind, "")>>
    \o (IF kind = 0 THEN <<>>
        ELSE <<F("initial_user", "string", 0, "u"),
               F("initial_query_id", "string", 0, "id"),
               F("initial_address", "string", 0, "a"),
               F("interface", "u8", iface, "")>>
             \o (CASE iface = TCP ->
                        <<F("os_user", "string", 0, "os"),
                          F("client_hostname", "string", 0, "h"),
                          F("client_name", "string", 0, "c"),
                          F("client_version_major", "uvarint", 21, ""),
                          F("client_version_minor", "uvarint", 3, ""),
                          F("client_revision", "uvarint", w, "")>>
                   [] iface = HTTP ->
                        <<F("http_method", "u8", 1, ""),
                          F("http_user_agent", "string", 0, "ua")>>
                   [] OTHER -> <<>>)
             \o (IF rev >= DBMS_MIN_REVISION_WITH_QUOTA_KEY_IN_CLIENT_INFO
                 THEN <<F("quota_key", "string", 0, "k")>> ELSE <<>>)
             \o (IF iface = TCP /\ rev >= DBMS_MIN_REVISION_WITH_VERSION_PATCH
                 THEN <<F("client_version_patch", "uvarint", 7, "")>> ELSE <<>>))

\* The body of a Query packet as a client writes it at negotiated revision rev.
ClientQueryWire(rev, kind, iface, w, settings, z) ==
    <<F("query_id", "string", 0, "")>>
    \o (IF rev >= DBMS_MIN_REVISION_WITH_CLIENT_INFO
        THEN ClientInfoWire(rev, kind, iface, w) ELSE <<>>)
    \o settings
    \o <<F("settings_end", "string", 0, ""),
         F("stage", "uvarint", StageComplete, ""),
         F("compression", "uvarint", z, ""),
         F("query", "string", 0, "q")>>

\* a reader at the start of buf
ReaderAt(buf) == [buf |-> buf, pos |-> 1, res |-> "Ok", read |-> <<>>]

\* One read_scalar, read_uvarint or read_string with `?`: past the end of the
\* buffer it is the would-block error; on bytes in another encoding the reader
\* is out of step with the client and what it returns is not what was sent.
ReadField(st, t, name) ==
    IF st.res # "Ok" THEN st
    ELSE IF st.pos > Len(st.buf) THEN [st EXCEPT !.res = "WouldBlock"]
    ELSE IF st.buf[st.pos].t # t THEN [st EXCEPT !.res = "Garbled"]
    ELSE [st EXCEPT !.pos = @ + 1,
                    !.read = Append(@, [as |-> name, u |-> st.buf[st.pos]])]

\* reads in a row
RECURSIVE ReadFields(_, _)
ReadFields(st, fields) ==
    IF fields = <<>> THEN st
    ELSE ReadFields(ReadField(st, Head(fields)[1], Head(fields)[2]), Tail(fields))

\* whether the reader has read a field as name
Reads(read, name) == \E i \in 1..Len(read) : read[i].as = name

\* the unit the reader has read as name
Got(read, name) ==
    IF Reads(read, name)
    THEN read[CHOOSE i \in 1..Len(read) : read[i].as = name].u
    ELSE NoField

\* QueryClientInfo::read_from: whether the quota key is read
ReadsQuotaKey(client_info_revision) ==
    client_info_revision >= DBMS_MIN_REVISION_WITH_QUOTA_KEY_IN_CLIENT_INFO

\* QueryClientInfo::read_from: whether the version patch is read
ReadsVersionPatch(interface, client_info_revision) ==
    interface = TCP /\ client_info_revision >= DBMS_MIN_REVISION_WITH_VERSION_PATCH

\* QueryClientInfo::read_from(reader)
ClientInfoReadFrom(st) ==
    LET s1 == ReadField(st, "u8", "query_kind")
    IN IF s1.res # "Ok" \/ Got(s1.read, "query_kind").v = 0 THEN s1
       ELSE LET s2 == ReadFields(s1, <<<<"string", "initial_user">>,
                                       <<"string", "initial_query_id">>,
                                       <<"string", "initial_address">>,
                                       <<"u8", "interface">>>>)
                interface == Got(s2.read, "interface").v
                s3 == CASE interface = TCP ->
                             ReadFields(s2, <<<<"string", "os_user">>,
                                              <<"string", "client_hostname">>,
                                              <<"string", "client_name">>,
                                              <<"uvarint", "client_version_major">>,
                                              <<"uvarint", "client_version_minor">>,
                                              <<"uvarint", "client_revision">>>>)
                        [] interface = HTTP ->
                             ReadFields(s2, <<<<"u8", "http_method">>,
                                              <<"string", "http_user_agent">>>>)
                        [] OTHER -> s2
                info_revision == Got(s3.read, "client_revision").v
                s4 == IF ReadsQuotaKey(info_revision)
                      THEN ReadField(s3, "string", "quota_key") ELSE s3
            IN IF ReadsVersionPatch(interface, info_revision)
               THEN ReadField(s4, "uvarint", "client_version_patch") ELSE s4

\* QueryRequest::read_from: the settings loop reads strings until an empty one
RECURSIVE SkipSettings(_)
SkipSettings(st) ==
    LET s == ReadField(st, "string", "setting")
    IN IF s.res # "Ok" THEN s
       ELSE IF s.read[Len(s.read)].u.s = "" THEN s
       ELSE SkipSettings(s)

\* a variant that differs from the code: the ClientInfo is read at every revision
ReadsClientInfoAlways(hello_rev) == TRUE

\* QueryRequest::read_from: whether the embedded ClientInfo is read
ReadsClientInfo(hello_rev) == hello_rev >= DBMS_MIN_REVISION_WITH_CLIENT_INFO

\* QueryRequest::read_from(reader, hello_request); hello_rev is
\* hello_request.client_revision
QueryRequestReadFrom(buf, hello_rev) ==
    LET s0 == ReadField(ReaderAt(buf), "string", "query_id")
        s1 == IF ReadsClientInfo(hello_rev) THEN ClientInfoReadFrom(s0) ELSE s0
        synthesized == Got(s1.read, "query_kind").v = 0
        s2 == ReadFields(SkipSettings(s1), <<<<"uvarint", "stage">>,
                                             <<"uvarint", "compression">>,
                                             <<"string", "query">>>>)
    IN [res |-> s2.res, pos |-> s2.pos - 1, read |-> s2.read,
        synthesized |-> synthesized,
        client_info |->
            [query_kind |-> IF synthesized THEN INITIAL_QUERY
                            ELSE Got(s1.read, "query_kind").v,
             client_revision |-> IF synthesized THEN hello_rev
                                 ELSE Got(s1.read, "client_revision").v,
             interface |-> TCP,
             quota_key |-> Got(s1.read, "quota_key").s],
        stage |-> Got(s2.read, "stage").v,
        compression |-> Got(s2.read, "compression").v,
        query |-> Got(s2.read, "query").s]

\* The client's Hello is accepted: the HelloRequest is stored with its
\* client_revision lowered to the server's.
QueryHello ==
    /\ hello_request = <<>>
    /\ \E c \in QueryClientRevisions :
          /\ offered' = c
          /\ hello_request' = <<NegotiatedRevision(server_revision, c)>>
    /\ UNCHANGED <<query_wire, query_request, server_revision, transportVars,
                   cmdVars, connVars, readVars>>

\* The client writes the body of a Query packet.
QueryClientSend ==
    /\ hello_request # <<>> /\ query_wire = <<>>
    /\ \E kind \in {0, INITIAL_QUERY, SECONDARY_QUERY}, iface \in {TCP, HTTP},
          w \in WrittenRevisions, settings \in QuerySettings, z \in {0, 1} :
          query_wire' = ClientQueryWire(Head(hello_request), kind, iface, w,
                                        settings, z)
    /\ UNCHANGED <<offered, hello_request, query_request, server_revision,
                   transportVars, cmdVars, connVars, readVars>>

\* Parser::parse_query with the stored HelloRequest, on the whole body
QueryRead ==
    /\ query_wire # <<>> /\ query_request = <<>>
    /\ query_request' = <<QueryRequestReadFrom(query_wire, Head(hello_request))>>
    /\ UNCHANGED <<offered, hello_request, query_wire, server_revision,
                   transportVars, cmdVars, connVars, readVars>>

QueryNext == QueryHello \/ QueryClientSend \/ QueryRead

QuerySpec == Init /\ [][QueryNext]_vars

----------------------------------------------------------------------------
(* io/read_to_end.rs, io/stream.rs *)

\* the values a byte takes in the model
ByteValues == {0, 1}

\* the peer sends no byte while the socket and the vector hold this many
MaxNet == 3

\* the number of calls of read_buf
MaxCalls == 4

\* the spare capacity read_buf asks for: g.buf.reserve(32), scaled down
Reserve == 2

\* Vec::reserve(additional): the capacities the vector can have afterwards.  It
\* does nothing if the capacity is already sufficient, and otherwise gives at
\* least len + additional.
ReserveCapacities(v, additional) ==
    IF v.capacity - Len(v.data) >= additional
    THEN {v.capacity}
    ELSE {Len(v.data) + additional, Len(v.data) + additional + 1}

\* Vec::set_len(new_len).  The bytes a longer length uncovers were never
\* written: they hold what the memory holds.
SetLen(v, new_len, memory) ==
    [v EXCEPT !.data = IF new_len <= Len(@)
                       THEN SubSeq(@, 1, new_len)
                       ELSE @ \o SubSeq(memory, 1, new_len - Len(@))]

\* a variant that differs from the code: dropping the guard leaves the length
\* read_buf has set
GuardKeepsLen(g) == g.buf

\* Drop for Guard: self.buf.set_len(self.len)
GuardDrop(g) == SetLen(g.buf, g.len, <<>>)

\* Stream::poll_read on a slice of room bytes: what it can return.  Ok(n) says
\* that n bytes are filled; Ok(0) comes when the socket has no byte to give.
PollRead(socket, room) ==
    {[poll |-> "Pending", n |-> 0], [poll |-> "Err", n |-> 0]}
    \cup {[poll |-> "Ok", n |-> n] :
             n \in IF socket = <<>> THEN {0} ELSE 1..Min(Len(socket), room)}

\* the reader fills the beginning of the slice buf[at..] with bytes
Filled(buf, at, bytes) ==
    [i \in 1..Len(buf) |-> IF i > at /\ i <= at + Len(bytes)
                           THEN bytes[i - at] ELSE buf[i]]

\* read_buf(rd, cx, buf): the vector it leaves and what it returns, when
\* reserve gives the capacity, the spare bytes hold memory and poll_read
\* returns r
read_buf(socket, v, capacity, memory, r) ==
    LET start_len == Len(v.data)
        g == [buf |-> v, len |-> Len(v.data)]
        exposed == IF g.len = Len(g.buf.data)
                   THEN [g EXCEPT !.buf = SetLen([v EXCEPT !.capacity = capacity],
                                                 capacity, memory)]
                   ELSE g
        read == IF r.poll = "Ok"
                THEN [exposed EXCEPT
                        !.buf.data = Filled(@, exposed.len, SubSeq(socket, 1, r.n)),
                        !.len = @ + r.n]
                ELSE exposed
    IN [vec |-> GuardDrop(read),
        ret |-> IF r.poll = "Ok"
                THEN [poll |-> "Ok", n |-> read.len - start_len]
                ELSE r]

\* the peer sends one byte
PeerSend ==
    /\ Len(net) + Len(vec.data) < MaxNet
    /\ \E b \in ByteValues : net' = Append(net, b)
    /\ UNCHANGED <<vec, polled, calls, server_revision, transportVars, cmdVars,
                   connVars, queryVars>>

\* one call of read_buf on the vector
ReadBufCall ==
    /\ calls < MaxCalls
    /\ \E capacity \in ReserveCapacities(vec, Reserve) :
       \E memory \in [1..(capacity - Len(vec.data)) -> ByteValues] :
       \E r \in PollRead(net, capacity - Len(vec.data)) :
          LET out == read_buf(net, vec, capacity, memory, r)
          IN /\ vec' = out.vec
             /\ polled' = out.ret
             /\ net' = SubSeq(net, r.n + 1, Len(net))
    /\ calls' = calls + 1
    /\ UNCHANGED <<server_revision, transportVars, cmdVars, connVars, queryVars>>

\* the transport has dispatched what it buffered: self.rd.clear()
RdClear ==
    /\ vec.data # <<>>
    /\ vec' = [vec EXCEPT !.data = <<>>]
    /\ UNCHANGED <<net, polled, calls, server_revision, transportVars, cmdVars,
                   connVars, queryVars>>

ReadNext == PeerSend \/ ReadBufCall \/ RdClear

ReadSpec == Init /\ [][ReadNext]_vars

----------------------------------------------------------------------------
(* Properties *)

Count(seq, x) == Cardinality({i \in 1..Len(seq) : seq[i] = x})

Last(seq) == seq[Len(seq)]

\* wr_flush has written everything of the current call: poll_next is about to return
FlushComplete == pc = "flush" /\ chan = <<>> /\ Senders = 0

\* the current call dispatched a Query whose execution failed
FailedQuery == last.kind = "Query" /\ (worker.exec = "err" \/ worker.sawErr)

\* the current call dispatched a Query whose executor call succeeded and whose
\* stream has yielded no error
HappyQuery == last.kind = "Query" /\ worker.exec = "ok" /\ ~worker.sawErr

IsBlockUnit(u) == u.k \in {"Progress", "Data"}

\* C1: for every Query whose execution fails (execute_query returns an error, or
\* the block stream yields an Err item), exactly one SERVER_EXCEPTION frame
\* followed by exactly one SERVER_END_OF_STREAM is written to the socket.
\* Stated for calls in which every socket write took the whole batch.
C1_OneExceptionThenOneEndOfStream ==
    (FlushComplete /\ FailedQuery /\ worker.pc = "done" /\ partials = 0) =>
        /\ Count(outbound, ExceptionFrame) = 1
        /\ Count(outbound, EndOfStream) = 1
        /\ \E i \in 1..(Len(outbound) - 1) :
              outbound[i] = ExceptionFrame /\ outbound[i + 1] = EndOfStream

C3_NothingAfterEndOfStream ==
    (last.kind = "Query" /\ partials = 0) =>
        \A i \in 1..(Len(outbound) - 1) : outbound[i] # EndOfStream

\* C5: while the block stream is producing, a Ping or Cancel that has arrived is
\* taken up by the read side: reading it is not blocked by result streaming.
C5_ReadSideRunsWhileStreaming ==
    (worker.pc = "stream" /\ inbound # <<>>
        /\ KindOf(Head(inbound)) \in {CLIENT_PING, CLIENT_CANCEL})
    => ENABLED ReadBuf

\* C6: after a Cancel is dispatched is_cancelled is true on the QueryState, and no
\* bytes are written for the Cancel.
C6_CancelSetsIsCancelled ==
    last.kind = "Cancel" => (state.is_cancelled /\ outbound = <<>>)

\* a parser error that is neither would-block nor the HTTP courtesy case
FatalParserError ==
    \/ last.kind = "UnknownPacket" /\ last.v \notin {AsciiG, AsciiP}
    \/ last.kind \in {"UnexpectedPacket", "Malformed"}

\* C7: a parser error other than would-block (and other than UnknownPacket 'G'/'P')
\* makes the server write an Exception frame followed by SERVER_END_OF_STREAM.
C7_ParserErrorWritesException ==
    (FlushComplete /\ FatalParserError) =>
        outbound = <<ExceptionFrame, EndOfStream>>

\* C8: on UnknownPacket 'G' or 'P' the bytes written to the socket are exactly the
\* 28 bytes HTTP/1.0 400 Bad Request\r\n\r\n, with no length prefix.
\* Stated for calls in which every socket write took the whole batch.
C8_HttpBadRequestBytes ==
    (FlushComplete /\ partials = 0
        /\ last.kind = "UnknownPacket" /\ last.v \in {AsciiG, AsciiP})
    => outbound = <<U("raw", 28, "HTTP/1.0 400 Bad Request\r\n\r\n")>>

\* the HelloResponse units among the units of seq
HelloUnits(seq) == {seq[i] : i \in {j \in 1..Len(seq) : seq[j].k = "HelloResponse"}}

\* every batch of the current call, sent or not, and what is on the socket
CallUnits ==
    HelloUnits(outbound)
    \cup UNION {HelloUnits(chan[i]) : i \in 1..Len(chan)}
    \cup UNION {HelloUnits(bytes_thread[i]) : i \in 1..Len(bytes_thread)}

\* C9: when a Hello offering revision c is dispatched and the executor advertises
\* s, client_revision becomes min(s, c) and the HelloResponse is encoded with
\* that value, not with c.
C9_NegotiatedRevisionIsMin ==
    last.kind = "Hello" =>
        /\ client_revision <= server_revision
        /\ client_revision <= last.v
        /\ client_revision \in {server_revision, last.v}
        /\ hello = <<client_revision>>
        /\ CallUnits = {U("HelloResponse", client_revision, "")}

\* C9 witness: a client offering more than the server supports has its
\* HelloResponse, encoded at the server's revision, on the socket
C9_Witness ==
    /\ FlushComplete /\ last.kind = "Hello" /\ last.v > server_revision
    /\ outbound = <<U("HelloResponse", server_revision, "")>>

\* C10: once a Hello has been accepted, client_revision has the same value in
\* every later state of the connection, whatever packets follow.
C10_RevisionNeverChangesAfterHello ==
    [][hello # <<>> => client_revision' = client_revision]_vars

IsSinkQuery(a) == a.kind = "Query" /\ a.exec = "sink"

IsEmptyData(a) == a.kind = "Data" /\ a.v = 0

IsBlockData(a) == a.kind = "Data" /\ a.v > 0

C11_NoQueryBeforeHello ==
    /\ hello = <<>> => (last.kind # "Query" /\ worker = NoWorker /\ state.query = "")
    /\ (hello = <<>> /\ rd # <<>> /\ KindOf(Head(rd)) = CLIENT_QUERY) =>
          parse_packet(rd, hello, state.compression > 0).res = "UnexpectedPacket"

\* C11 witness: a Query sent before any Hello has been answered as UnexpectedPacket
C11_Witness ==
    /\ hello = <<>> /\ FlushComplete /\ last.kind = "UnexpectedPacket"
    /\ state.query = "" /\ worker = NoWorker

\* C12: every complete packet the client sends before closing is dispatched, in
\* arrival order: a step that dispatches the outcome of try_parse_msg leaves in
\* rd exactly the bytes that follow the parsed packet (a packet pipelined after a
\* Query is kept), and when the read returns 0 no complete packet is left
\* undispatched in rd.
C12_PacketsKeptAndDispatched ==
    [][ /\ (pc = "read" /\ pc' = "flush") =>
              rd' = Consumed(rd, parse_packet(rd, hello, state.compression > 0))
        /\ (pc = "read" /\ pc' = "eof") =>
              parse_packet(rd', hello', state'.compression > 0).res # "Ok" ]_vars

\* the socket read has returned 0 bytes
ReadReturnedZero == pc \notin {"read", "flush"}

\* rd holds the beginning of a frame and not all of it
PartialFrame(buf) ==
    buf # <<>> /\ parse_packet(buf, hello, state.compression > 0).res = "WouldBlock"

\* C13: when the socket read returns 0 bytes, the packet stream ends
\* (Ready(None), after which the connection task terminates) if the read buffer
\* is empty, and an error is surfaced if the read buffer holds a partial frame.
C13_EofClosesOrResets ==
    ReadReturnedZero =>
        /\ rd = <<>> => pc = "ended"
        /\ PartialFrame(rd) => pc = "failed"

Progresses(seq) == Cardinality({i \in 1..Len(seq) : seq[i].k = "Progress"})

\* C14: whenever the worker of a query emits a Progress frame, the final one
\* included, at least INTERACTIVE_DALAY ms have passed since the previous
\* Progress emission of that query, or since the query started.
C14_ProgressAtLeastDelayApart ==
    [][ (worker.pc = "stream" /\ Progresses(resp') > Progresses(resp)) =>
            elapsed >= INTERACTIVE_DALAY ]_vars

RECURSIVE Concat(_)
Concat(batches) ==
    IF batches = <<>> THEN <<>> ELSE Head(batches) \o Concat(Tail(batches))

\* everything the current call has written to the socket or still has to write
CallBytes == outbound \o Concat(chan) \o Concat(bytes_thread)

\* C15: in any connection state (before or after Hello, whatever the query
\* state), dispatching a Ping writes exactly one SERVER_PONG varint and no other
\* bytes to the socket, and the connection stays open: poll_next goes on to
\* flush and then reads again.
C15_PingWritesOnePong ==
    /\ last.kind = "Ping" =>
          /\ pc = "flush"
          /\ CallBytes = <<Uvarint(SERVER_PONG)>>
          /\ worker = NoWorker
    /\ (FlushComplete /\ last.kind = "Ping") =>
          /\ outbound = <<Uvarint(SERVER_PONG)>>
          /\ ENABLED FlushDone

\* C15 witness: a Ping dispatched after a Hello and a Query has been answered
C15_Witness ==
    /\ FlushComplete /\ last.kind = "Ping" /\ hello # <<>> /\ state.query # ""
    /\ outbound = <<Uvarint(SERVER_PONG)>>

IsPrefix(a, b) == Len(a) <= Len(b) /\ a = SubSeq(b, 1, Len(a))

\* C16: the bytes written for query N precede all bytes written for query N+1:
\* whenever poll_next can dispatch the next packet, nothing of the previous
\* response is unwritten and none of its producers is alive, and what the socket
\* receives during a query's response is that query's frames, in the order its
\* worker sent them.  The socket part is stated for calls in which every socket
\* write took the whole batch.
C16_QueryResponsesDoNotInterleave ==
    /\ pc = "read" =>
          /\ worker.pc = "idle" /\ bytes_thread = <<>> /\ chan = <<>>
          /\ outbound = <<>>
    /\ (last.kind = "Query" /\ partials = 0) => IsPrefix(outbound, resp)

\* C16 witness: the response of a query has been written to its end while the
\* next Query is waiting on the socket
C16_Witness ==
    /\ FlushComplete /\ last.kind = "Query" /\ worker.n >= 1 /\ partials = 0
    /\ outbound = resp /\ Last(outbound) = EndOfStream
    /\ inbound = Wire(Pkt("Query", 1))

\* C17: a result block is written in the compressed frame format iff the
\* compression flag of the current query is non-zero: after a first Query whose
\* executor wrote blocks, every Data frame on the connection is compressed iff
\* that Query's compression flag is non-zero.
C17_CompressedIffFlag ==
    (Len(applied) = 1 /\ applied[1].kind = "Query" /\ applied[1].exec = "blocks") =>
        \A i \in 1..Len(conn) :
            conn[i].k = "Data" =>
                (conn[i] = DataFrame(TRUE) <=> ctx.state.compression > 0)

\* C19: no failure on the executor side makes the connection task panic: if
\* the executor has dropped the receiving end of the INSERT sink, dispatching a
\* non-empty Data packet ends in an error outcome, never in a panic.
C19_NoPanicOnDroppedSink == ~panicked

\* C18: an executor error with code k, message m and stack trace t is
\* serialized as SERVER_EXCEPTION with the fields, in order: code = k,
\* name = "", message = m, stack_trace = t if with_stack_trace is true for the
\* session and "" otherwise, nested = false.
C18_ExceptionFields ==
    (Len(errors_written) = 1 /\ errors_written[1].err.kind = "Server") =>
        LET e == errors_written[1].err
            t == IF errors_written[1].with_stack_trace THEN e.stack_trace ELSE ""
        IN conn = <<Uvarint(SERVER_EXCEPTION), U("u32", e.code, "")>>
                  \o EncoderString("") \o EncoderString(e.message)
                  \o EncoderString(t) \o <<U("bool", 0, "")>>

\* C20: after a Hello has been accepted on a connection, a complete well-formed
\* CLIENT_QUERY received on it is parsed into Packet::Query and not rejected as
\* UnexpectedPacket; here on the read path of Connection::read_packet, where a
\* Hello is accepted once read_packet has returned it.
C20_QueryParsedAfterHello ==
    \A i \in 1..Len(returned) :
        returned[i].kind = "Hello" =>
            \A j \in (i + 1)..Len(returned) : returned[j].kind # "UnexpectedPacket"

\* the step is one call of Cmd::apply
Dispatched == Len(applied') = Len(applied) + 1

\* the step is Cmd::apply of an empty Data block
DispatchedEmptyData == Dispatched /\ IsEmptyData(applied'[Len(applied')])

\* C21: dispatching an empty Data block in stage InsertPrepare moves the stage to
\* InsertStart and writes no bytes; dispatching an empty Data block in stage
\* InsertStart moves the stage to Default, resets the QueryState (stage and
\* flags) and writes exactly one SERVER_END_OF_STREAM.
C21_EmptyDataMovesStage ==
    [][ DispatchedEmptyData =>
          /\ ctx.state.stage = "InsertPrepare" =>
                /\ ctx'.state.stage = "InsertStart"
                /\ conn' = conn
                /\ ctx'.state.is_cancelled = ctx.state.is_cancelled
          /\ ctx.state.stage = "InsertStart" =>
                /\ ctx'.state.stage = "Default"
                /\ ~ctx'.state.is_cancelled
                /\ conn' = Append(conn, EndOfStream)
          /\ ctx'.state.query = ctx.state.query
          /\ ctx'.state.compression = ctx.state.compression ]_vars

\* C21 witness: after an INSERT Query two empty Data blocks have been dispatched,
\* the first in InsertPrepare and the second in InsertStart
C21_Witness ==
    /\ Len(applied) = 3 /\ IsSinkQuery(applied[1]) /\ IsEmptyData(applied[2])
    /\ IsEmptyData(applied[3])
    /\ ctx.state.stage = "Default" /\ conn = <<EndOfStream>>

InsertStages == {"InsertPrepare", "InsertStart"}

DispatchedQueryOk ==
    /\ Dispatched /\ applied'[Len(applied')].kind = "Query"
    /\ applied'[Len(applied')].exec \in {"sink", "blocks"}

\* C23: dispatching a Query: if the executor installed an INSERT sink, the stage
\* becomes InsertPrepare and no SERVER_END_OF_STREAM is written by that dispatch;
\* if it did not, exactly one SERVER_END_OF_STREAM is written, after the result
\* blocks, and the lifecycle stage is left at Default.
C23_QueryEndsOrPreparesInsert ==
    [][ DispatchedQueryOk =>
          /\ applied'[Len(applied')].exec = "sink" =>
                /\ ctx'.state.stage = "InsertPrepare"
                /\ Count(conn', EndOfStream) = Count(conn, EndOfStream)
          /\ applied'[Len(applied')].exec = "blocks" =>
                /\ Count(conn', EndOfStream) = Count(conn, EndOfStream) + 1
                /\ conn'[Len(conn')] = EndOfStream
                /\ ctx'.state.stage = "Default" ]_vars

\* C24: the lifecycle stage changes only along Default -> InsertPrepare (a Query
\* for which the executor installed a sink), InsertPrepare -> InsertStart (an
\* empty Data block) and InsertStart -> Default (an empty Data block); no
\* dispatch produces any other stage change.
C24_StageChangesOnlyAlongLifecycle ==
    [][ ctx'.state.stage # ctx.state.stage =>
          \/ /\ ctx.state.stage = "Default" /\ ctx'.state.stage = "InsertPrepare"
             /\ Dispatched /\ IsSinkQuery(applied'[Len(applied')])
          \/ /\ ctx.state.stage = "InsertPrepare" /\ ctx'.state.stage = "InsertStart"
             /\ DispatchedEmptyData
          \/ /\ ctx.state.stage = "InsertStart" /\ ctx'.state.stage = "Default"
             /\ DispatchedEmptyData ]_vars

\* the step is Cmd::apply of a Data block, empty or not
DispatchedData == Dispatched /\ applied'[Len(applied')].kind = "Data"

C26_ParserRestartable ==
    [][ LET r == parse_packet(rd, hello, state.compression > 0)
        IN /\ r.res = "WouldBlock" =>
                 /\ Consumed(rd, r) = rd
                 /\ IsPrefix(rd, rd')
           /\ r.res = "Ok" => rd = Wire(r.packet) \o Consumed(rd, r) ]_vars

\* C26 witness: a Ping has been parsed off a buffer that held a Hello behind it,
\* and the Hello is at the front of the buffer
C26_Witness ==
    /\ pc = "flush" /\ last.kind = "Ping"
    /\ rd = Wire(Pkt("Hello", 54060))

\* C27: the byte sequence that reaches the socket equals the concatenation of the
\* enqueued batches in enqueue order, each byte written exactly once, also when
\* the socket accepts only part of a batch in one write: every write moves bytes
\* from the front of what is queued to the end of what is written, so what is
\* written followed by what is still queued stays the same.
C27_EachByteWrittenOnce ==
    [][ (pc = "flush" /\ outbound' # outbound) =>
            outbound' \o Concat(chan') = outbound \o Concat(chan) ]_vars

\* the step is Cmd::apply of a Query
DispatchedQuery == Dispatched /\ applied'[Len(applied')].kind = "Query"

\* C28: when a Query packet is dispatched, the transient flags of the QueryState
\* are cleared and query, stage and compression are set from the new
\* QueryRequest, so the state the executor is called with holds the new query
\* and compression, no flag and no lifecycle stage left by the query before.
C28_QueryStartsFromCleanState ==
    [][ DispatchedQuery =>
          LET seen == StateAtExecute(ctx.state, applied'[Len(applied')].v)
          IN /\ seen.query = "q"
             /\ seen.compression = applied'[Len(applied')].v
             /\ ~seen.is_cancelled
             /\ seen.stage = "Default" ]_vars

\* the names QueryClientInfo::read_from reads its fields as
ClientInfoFields ==
    {"query_kind", "initial_user", "initial_query_id", "initial_address",
     "interface", "os_user", "client_hostname", "client_name",
     "client_version_major", "client_version_minor", "client_revision",
     "http_method", "http_user_agent", "quota_key", "client_version_patch"}

\* C29: when a Query packet is decoded, the embedded ClientInfo is consumed from
\* the wire iff the negotiated revision min(client_offered, server_supported) is
\* at least 54032 (and then it starts at the query kind the client wrote);
\* otherwise no ClientInfo field is consumed (the field behind the query id is
\* read as the first settings key) and a ClientInfo is synthesized from the
\* stored HelloRequest.
C29_ClientInfoReadIffNegotiated ==
    query_request # <<>> =>
        LET r == Head(query_request)
            rev == Min(offered, server_revision)
        IN /\ Head(hello_request) = rev
           /\ Reads(r.read, "query_kind") <=> rev >= 54032
           /\ rev >= 54032 =>
                 /\ r.read[2].as = "query_kind"
                 /\ r.read[2].u = query_wire[2]
                 /\ query_wire[2].f = "query_kind"
           /\ rev < 54032 =>
                 /\ \A i \in 1..Len(r.read) : r.read[i].as \notin ClientInfoFields
                 /\ Len(r.read) >= 2
                 /\ r.read[2].as = "setting"
                 /\ r.read[2].u = query_wire[2]
                 /\ r.synthesized
                 /\ r.client_info.query_kind = INITIAL_QUERY
                 /\ r.client_info.client_revision = Head(hello_request)

\* C29 witness: on a connection negotiated below 54032 a Query has been decoded
\* with a synthesized ClientInfo, none of its fields taken from the wire
C29_Witness ==
    /\ query_request # <<>> /\ offered = 54031
    /\ Head(query_request).res = "Ok" /\ Head(query_request).synthesized
    /\ Head(query_request).pos = Len(query_wire)
    /\ Head(query_request).query = "q"

\* the reader has read a whole ClientInfo that the client wrote in full
FullClientInfoRead ==
    /\ query_request # <<>>
    /\ Reads(Head(query_request).read, "interface")

\* C30: inside ClientInfo the quota key is read iff the connection's negotiated
\* revision is at least 54060, and the version patch is read iff the interface
\* is TCP and the negotiated revision is at least 54401: the decision depends on
\* the negotiated revision only, not on the revision the client writes inside
\* ClientInfo nor, for the quota key, on the interface.
C30_GatedByNegotiatedRevision ==
    FullClientInfoRead =>
        LET r == Head(query_request)
            rev == Head(hello_request)
        IN /\ Reads(r.read, "quota_key") <=> rev >= 54060
           /\ Reads(r.read, "client_version_patch") <=>
                 (Got(r.read, "interface").v = TCP /\ rev >= 54401)

\* the unit the client wrote as field f, in a body that has it once
Wrote(wire, f) == wire[CHOOSE i \in 1..Len(wire) : wire[i].f = f]

\* the reader has come to the settings in step with the client: the first unit
\* it read as a settings key is the first unit of the client's settings list
SettingsReachedInStep ==
    /\ query_request # <<>>
    /\ \E i \in 1..Len(Head(query_request).read) :
          /\ Head(query_request).read[i].as = "setting"
          /\ Head(query_request).read[i].u.f \in {"setting_key", "settings_end"}
          /\ \A j \in 1..(i - 1) : Head(query_request).read[j].as # "setting"

\* C31: for a Query packet carrying a settings list of n >= 0 entries (each a key
\* followed by its value) ended by an empty key, decoding consumes every key and
\* skips every value up to and including the terminator, so the decoded stage,
\* compression and query are exactly those the client wrote behind the list and
\* the whole body is consumed.
C31_SettingsSkipped ==
    SettingsReachedInStep =>
        LET r == Head(query_request)
        IN /\ r.res = "Ok"
           /\ r.pos = Len(query_wire)
           /\ r.stage = Wrote(query_wire, "stage").v
           /\ r.compression = Wrote(query_wire, "compression").v
           /\ r.query = Wrote(query_wire, "query").s

\* the packets that carry no query
StatelessKinds == {"Ping", "Cancel", "Hello"}

\* Cmd::apply has dispatched a Ping, Cancel or Hello in this step
DispatchedStateless == Dispatched /\ applied'[Len(applied')].kind \in StatelessKinds

\* response() has run for a Ping, Cancel or Hello in this step
RespondedStateless ==
    /\ pc = "read" /\ pc' = "flush"
    /\ parse_packet(rd, hello, state.compression > 0).res = "Ok"
    /\ parse_packet(rd, hello, state.compression > 0).packet.kind \in StatelessKinds

\* C32: dispatching a Ping, Cancel or Hello packet never changes the lifecycle
\* stage, the INSERT sink, or the stored query, stage and compression of the
\* QueryState, on either dispatch path; an INSERT in progress is in the same
\* stage after the packet.
C32_StatelessPacketsLeaveQueryState ==
    [][ /\ DispatchedStateless =>
              /\ ctx'.state = ctx.state
              /\ sink' = sink
        /\ RespondedStateless =>
              /\ state'.query = state.query
              /\ state'.stage = state.stage
              /\ state'.compression = state.compression ]_vars

\* read_buf has been called and has returned in this step
ReadBufReturned == calls' = calls + 1

\* C33: read_buf appends exactly the n bytes the socket read returned to the end
\* of the read buffer and returns n, leaving the bytes buffered before as they
\* were; when the read is Pending or fails, the buffer's length and contents are
\* unchanged.  The spare capacity uncovered for the read never stays part of
\* the buffer.
C33_ReadBufAppendsWhatWasRead ==
    [][ ReadBufReturned =>
          IF polled'.poll = "Ok"
          THEN /\ Len(net) - Len(net') = polled'.n
               /\ vec'.data = vec.data \o SubSeq(net, 1, polled'.n)
          ELSE /\ vec'.data = vec.data
               /\ net' = net ]_vars

\* calls of read_buf have brought three bytes into the buffer, and a later call
\* on it was Pending with nothing left at the socket
C33_Witness ==
    /\ Len(vec.data) = 3 /\ calls >= 3
    /\ polled.poll = "Pending"
    /\ net = <<>>

====
